---- MODULE Spec2Model ----
(***************************************************************************)
(* Model of the recursive replacer (utils/replacer.ts, replaceDogWithCat)  *)
(* and of the configuration loader (config.ts, loadConfig).                *)
(*                                                                         *)
(* JavaScript values are records [t, s, id]: t is the typeof-like tag,     *)
(* s the text of a scalar, id the identity (heap address) of a container.  *)
(* Containers live in a heap (a sequence indexed by identity); the input   *)
(* containers are the first nInput cells, the containers the function      *)
(* builds are allocated after them.  The recursion is run as an explicit   *)
(* stack machine: one frame per active call on a container.                *)
(***************************************************************************)
EXTENDS Integers, Sequences, FiniteSets, TLC

(* ---------------- bounds of the explored inputs ---------------- *)
NumIds == 2
MaxEntries == 2
MaxLimit == 1
MaxDepthArg == 1
MaxEnvLen == 2

(* ---------------- program constants ---------------- *)
DEFAULT_MAX_DEPTH == 100

(* ---------------- values ---------------- *)
Str(x) == [t |-> "string", s |-> x, id |-> 0]
Null == [t |-> "null", s |-> "", id |-> 0]
Undef == [t |-> "undefined", s |-> "", id |-> 0]
Num7 == [t |-> "number", s |-> "7", id |-> 0]
BoolTrue == [t |-> "boolean", s |-> "true", id |-> 0]
Ref(i) == [t |-> "ref", s |-> "", id |-> i]
ObjectPrototype == [t |-> "builtin", s |-> "Object.prototype", id |-> 0]
ArrayPrototype == [t |-> "builtin", s |-> "Array.prototype", id |-> 0]

IsRef(v) == v.t = "ref"

\* typeof value: null and every container answer 'object'
TypeOf(v) == IF v.t \in {"null", "ref"} THEN "object" ELSE v.t

\* scalars that may stand inside a container / at the root of an input
ElemScalars == {Str("dog"), Str("hotdog"), Null}
RootScalars == ElemScalars \cup {Str("cat"), Num7, BoolTrue, Undef}

\* keys of the objects of one input, in insertion order
PlainKeys == <<"pet", "dog", "name", "self", "zeta", "alpha">>
ProtoKeys == <<"__proto__", "dog", "pet", "name", "self", "zeta">>
KeyPools == {PlainKeys, ProtoKeys}

(* ---------------- inputs ---------------- *)
NewArray == [kind |-> "array", keys |-> <<>>, vals |-> <<>>, proto |-> ArrayPrototype]
NewObject == [kind |-> "object", keys |-> <<>>, vals |-> <<>>, proto |-> ObjectPrototype]

\* the scalars of ElemScalars in a fixed order; an entry is written as a
\* number: k for the k-th scalar, 3 + i for a reference to container i
ScalarSeq == <<Str("dog"), Str("hotdog"), Null>>
ValueOf(code) == IF code <= Len(ScalarSeq) THEN ScalarSeq[code] ELSE Ref(code - Len(ScalarSeq))

\* a container is written <<kind, entry, ..., entry>>, kind 0 for an array and
\* 1 for an object; these are the containers of l entries whose children are
\* among n containers
ContainersOfLen(l, n) ==
  {<<kind>> \o x : kind \in {0, 1}, x \in [1..l -> 1..(Len(ScalarSeq) + n)]}

\* the container a code stands for, the keys of an object taken from pool
ContainerOf(code, pool) ==
  LET vals == [k \in 1..(Len(code) - 1) |-> ValueOf(code[k + 1])]
  IN IF code[1] = 0
     THEN [kind |-> "array", keys |-> <<>>, vals |-> vals, proto |-> ArrayPrototype]
     ELSE [kind |-> "object", keys |-> SubSeq(pool, 1, Len(vals)), vals |-> vals,
           proto |-> ObjectPrototype]

HeapOf(codes, pool) == [i \in 1..Len(codes) |-> ContainerOf(codes[i], pool)]

\* the heaps (written as codes) of the containers i..n holding at most e
\* entries together
RECURSIVE HeapsFrom(_, _, _)
HeapsFrom(i, n, e) ==
  IF i > n THEN {<<>>}
  ELSE UNION { LET rests == HeapsFrom(i + 1, n, e - l)
               IN {<<c>> \o rest : c \in ContainersOfLen(l, n), rest \in rests}
               : l \in 0..e }

\* the containers of h in the order a depth-first walk of todo first meets them
RECURSIVE Discovery(_, _, _)
Discovery(h, todo, seen) ==
  IF todo = <<>> THEN seen
  ELSE LET v == Head(todo)
       IN IF IsRef(v) /\ ~\E k \in 1..Len(seen) : seen[k] = v.id
          THEN Discovery(h, h[v.id].vals \o Tail(todo), Append(seen, v.id))
          ELSE Discovery(h, Tail(todo), seen)

\* inputs made of 1..NumIds containers holding at most MaxEntries entries, every
\* container reachable from the root and numbered in the order of discovery
SmallHeaps ==
  UNION {
    {HeapOf(codes, pool) :
       codes \in {c \in HeapsFrom(1, n, MaxEntries) :
                    Discovery(HeapOf(c, PlainKeys), <<Ref(1)>>, <<>>) = [k \in 1..n |-> k]},
       pool \in KeyPools}
    : n \in 1..NumIds }

\* `input = 'dog'; for (i < n) input = { nested: input }` of the depth tests
ChainHeap(n) ==
  [i \in 1..n |-> [kind |-> "object", keys |-> <<"nested">>,
                   vals |-> <<IF i = n THEN Str("dog") ELSE Ref(i + 1)>>,
                   proto |-> ObjectPrototype]]

ChainHeaps == {ChainHeap(DEFAULT_MAX_DEPTH), ChainHeap(DEFAULT_MAX_DEPTH + 1)}

\* `Array(n).fill('dog')` of the limit tests
DogArray(n) ==
  <<[kind |-> "array", keys |-> <<>>, vals |-> [k \in 1..n |-> Str("dog")],
     proto |-> ArrayPrototype]>>

DogArrays == {DogArray(n) : n \in 0..(MaxLimit + 2)}

\* `[['dog'], ['puppy', 'dog']]` of the nested arrays test
NestedArrays ==
  <<[kind |-> "array", keys |-> <<>>, vals |-> <<Ref(2), Ref(3)>>, proto |-> ArrayPrototype],
    [kind |-> "array", keys |-> <<>>, vals |-> <<Str("dog")>>, proto |-> ArrayPrototype],
    [kind |-> "array", keys |-> <<>>, vals |-> <<Str("puppy"), Str("dog")>>,
     proto |-> ArrayPrototype]>>

(* ---------------- config.ts: loadConfig ---------------- *)
\* an environment variable is unset or a string, here a sequence of characters
Unset == <<"unset">>
Chars(x) == <<"chars", x>>
EnvAlphabet == {"0", "1", "2", "-", " ", "x"}
MaxReplacementsEnvs ==
  {Unset} \cup UNION { {Chars(x) : x \in [1..l -> EnvAlphabet]} : l \in 0..MaxEnvLen }
PortEnvs == {Unset, Chars(<<"8", "0", "8", "0">>), Chars(<<"0">>),
             Chars(<<"7", "0", "0", "0", "0">>), Chars(<<"a", "b", "c">>)}
DefaultEnv == [PORT |-> Unset, MAX_REPLACEMENTS |-> Unset]

Digits == <<"0", "1", "2", "3", "4", "5", "6", "7", "8", "9">>
IsDigit(c) == \E i \in 1..10 : Digits[i] = c
DigitVal(c) == (CHOOSE i \in 1..10 : Digits[i] = c) - 1

NaN == [nan |-> TRUE, n |-> 0]
Number(k) == [nan |-> FALSE, n |-> k]

RECURSIVE SkipSpace(_)
SkipSpace(x) == IF x # <<>> /\ Head(x) = " " THEN SkipSpace(Tail(x)) ELSE x

\* the value of the longest prefix of digits of x, continuing from acc
RECURSIVE DigitsPrefix(_, _)
DigitsPrefix(x, acc) ==
  IF x # <<>> /\ IsDigit(Head(x)) THEN DigitsPrefix(Tail(x), 10 * acc + DigitVal(Head(x)))
  ELSE acc

\* parseInt(x, 10): leading white space, an optional sign, then the longest
\* prefix of decimal digits; NaN when that prefix is empty
ParseInt(x) ==
  LET a == SkipSpace(x)
      neg == a # <<>> /\ Head(a) = "-"
      b == IF a # <<>> /\ Head(a) \in {"-", "+"} THEN Tail(a) ELSE a
  IN IF b = <<>> \/ ~IsDigit(Head(b)) THEN NaN
     ELSE Number(IF neg THEN 0 - DigitsPrefix(b, 0) ELSE DigitsPrefix(b, 0))

\* `process.env.X || dflt`: unset and the empty string are falsy
OrDefault(e, dflt) == IF e = Unset \/ e[2] = <<>> THEN dflt ELSE e[2]

\* mutant: a limit of 0 passes the validation
MaxReplacementsInvalid_negative(m) == m.nan \/ m.n < 0

PortInvalid(port) == port.nan \/ port.n < 1 \/ port.n > 65535
MaxReplacementsInvalid(m) == m.nan \/ m.n < 1

NoConfig == [status |-> "none", port |-> 0, maxReplacements |-> 0]

loadConfig(e) ==
  LET port == ParseInt(OrDefault(e.PORT, <<"3", "0", "0", "0">>))
      maxR == ParseInt(OrDefault(e.MAX_REPLACEMENTS, <<"1", "0", "0">>))
  IN IF PortInvalid(port) THEN [status |-> "Invalid PORT", port |-> 0, maxReplacements |-> 0]
     ELSE IF MaxReplacementsInvalid(maxR)
          THEN [status |-> "Invalid MAX_REPLACEMENTS", port |-> 0, maxReplacements |-> 0]
          ELSE [status |-> "ok", port |-> port.n, maxReplacements |-> maxR.n]

(* ---------------- the worlds a behaviour starts in ---------------- *)
Worlds ==
  {[heap |-> <<>>, root |-> r, env |-> DefaultEnv] : r \in RootScalars}
  \cup {[heap |-> h, root |-> Ref(1), env |-> DefaultEnv] :
          h \in SmallHeaps \cup ChainHeaps \cup DogArrays \cup {NestedArrays}}
  \cup {[heap |-> <<>>, root |-> Str("dog"), env |-> [PORT |-> p, MAX_REPLACEMENTS |-> m]] :
          p \in PortEnvs, m \in MaxReplacementsEnvs}

(* ---------------- state ---------------- *)
VARIABLES
  heap,             \* the containers, by identity
  input,            \* the heap as the caller built it
  root,             \* the value passed to the top-level call
  env,              \* process.env
  config,           \* what loadConfig returned or threw
  args,             \* the arguments the caller wrote (maxDepth -1: omitted)
  maxReplacements,  \* parameters of the running call
  maxDepth,
  pc,               \* "idle", "call", "loop", "done"
  cur,              \* the invocation being entered: value, currentCount, depth
  stack,            \* one frame per call that is inside a container loop
  visited,          \* the WeakSet shared by the calls of one traversal
  outcome,          \* what the top-level call returned or threw
  visits,           \* the invocations made so far, in order
  phase,            \* which call of the caller is this: "first", or the second
                    \* one: "again", "onOutput", "unguarded"
  previous,         \* what the first call returned or threw, once a second is made
  request,          \* position of replaceHandler: "none", "received", "core", "responded"
  response          \* what replaceHandler sent

\* the state of the caller of replaceDogWithCat
caller == <<phase, previous, request, response>>

vars == <<heap, input, root, env, config, args, maxReplacements, maxDepth, pc, cur,
          stack, visited, outcome, visits, phase, previous, request, response>>

NoArgs == [maxReplacements |-> 0, maxDepth |-> 0]
NoCall == [value |-> Undef, currentCount |-> 0, depth |-> 0]
NoOutcome == [kind |-> "none", data |-> Undef, replacementCount |-> 0, limit |-> 0, maxDepth |-> 0]
NoPrevious == [outcome |-> NoOutcome, base |-> 0]
NoResponse ==
  [status |-> 0, has |-> {}, error |-> "", message |-> [text |-> "", count |-> 0, limit |-> 0],
   data |-> Undef, replacements |-> 0, limit |-> 0]

Init ==
  /\ \E w \in Worlds : heap = w.heap /\ root = w.root /\ env = w.env
  /\ input = heap
  /\ config = NoConfig
  /\ args = NoArgs
  /\ maxReplacements = 0
  /\ maxDepth = 0
  /\ pc = "idle"
  /\ cur = NoCall
  /\ stack = <<>>
  /\ visited = {}
  /\ outcome = NoOutcome
  /\ visits = <<>>
  /\ phase = "first"
  /\ previous = NoPrevious
  /\ request = "none"
  /\ response = NoResponse

(* ---------------- utils/replacer.ts: replaceDogWithCat ---------------- *)
Ok(data, count) ==
  [kind |-> "ok", data |-> data, replacementCount |-> count, limit |-> 0, maxDepth |-> 0]
ReplacementLimitExceededError(count, limit) ==
  [kind |-> "ReplacementLimitExceededError", data |-> Undef, replacementCount |-> count,
   limit |-> limit, maxDepth |-> 0]
CircularReferenceError ==
  [kind |-> "CircularReferenceError", data |-> Undef, replacementCount |-> 0,
   limit |-> 0, maxDepth |-> 0]
MaxDepthExceededError(md) ==
  [kind |-> "MaxDepthExceededError", data |-> Undef, replacementCount |-> 0,
   limit |-> 0, maxDepth |-> md]

\* mutants of the guards: an off-by-one depth test, a depth test that never
\* fires, an off-by-one limit test, a cycle test that never fires
DepthCheck_atLimit(depth, md) == depth >= md
DepthCheck_never(depth, md) == FALSE
LimitCheck_atLimit(newCount, limit) == newCount >= limit
VisitedHas_never(vis, v) == FALSE

\* mutants: the set of visited containers outlives the call; the match is
\* put back unchanged
NewWeakSet_kept == visited
ReplacementValue_unchanged == Str("dog")

\* `visited: WeakSet<object> = new WeakSet()` of a top-level call
NewWeakSet == {}

\* the value a match is replaced by
ReplacementValue == Str("cat")

\* the guards of the function, in the order the code evaluates them
DepthCheck(depth, md) == depth > md
IsMatch(v) == v = Str("dog")
LimitCheck(newCount, limit) == newCount > limit
IsArray(h, v) == IsRef(v) /\ h[v.id].kind = "array"
IsObject(h, v) == v.t # "null" /\ TypeOf(v) = "object"
VisitedHas(vis, v) == v.id \in vis

\* result.push(data)
ArrayPush(c, data) == [c EXCEPT !.vals = Append(@, data)]

\* result[key] = data on a plain object: the key __proto__ reaches the setter
\* of Object.prototype, which replaces the prototype when data is an object or
\* null and does nothing otherwise; any other key is an own property
ObjSet(c, key, data) ==
  IF key = "__proto__"
  THEN IF TypeOf(data) = "object" THEN [c EXCEPT !.proto = data] ELSE c
  ELSE IF \E k \in 1..Len(c.keys) : c.keys[k] = key
       THEN [c EXCEPT !.vals[CHOOSE k \in 1..Len(c.keys) : c.keys[k] = key] = data]
       ELSE [c EXCEPT !.keys = Append(@, key), !.vals = Append(@, data)]

\* the position of the invocation made from the top frame: the indices chosen
\* in the enclosing loops
PathOf(stk) == [i \in 1..Len(stk) |-> stk[i].idx]

\* mutant: the call writes its result into the container it reads
Frame_inPlace(src, dst, count, depth) ==
  [src |-> src, dst |-> src, idx |-> 1, totalCount |-> count, depth |-> depth]

Frame(src, dst, count, depth) ==
  [src |-> src, dst |-> dst, idx |-> 1, totalCount |-> count, depth |-> depth]

\* a call returns {data, replacementCount}: to the caller of the top-level
\* call, or into the loop of the enclosing call (frames stk, heap hp)
Return(data, count, stk, hp) ==
  IF stk = <<>>
  THEN /\ outcome' = Ok(data, count)
       /\ pc' = "done"
       /\ stack' = stk
       /\ heap' = hp
  ELSE LET f == stk[Len(stk)]
           c == hp[f.src]
       IN /\ heap' = [hp EXCEPT ![f.dst] =
                        IF c.kind = "array" THEN ArrayPush(@, data)
                        ELSE ObjSet(@, c.keys[f.idx], data)]
          /\ stack' = [stk EXCEPT ![Len(stk)] =
                         [f EXCEPT !.idx = @ + 1, !.totalCount = count]]
          /\ pc' = "loop"
          /\ outcome' = outcome

\* mutant: the failure of a child is recorded but the enclosing loop goes on
\* with the next sibling
Throw_keepGoing(err) ==
  /\ outcome' = err
  /\ pc' = IF stack = <<>> THEN "done" ELSE "loop"
  /\ stack' = IF stack = <<>> THEN stack
              ELSE [stack EXCEPT ![Len(stack)] = [@ EXCEPT !.idx = @ + 1]]
  /\ UNCHANGED heap

\* a throw unwinds every active call
Throw(err) ==
  /\ outcome' = err
  /\ pc' = "done"
  /\ stack' = <<>>
  /\ UNCHANGED heap

\* replaceDogWithCat(value, maxReplacements[, 0, new WeakSet(), 0, maxDepth])
Call(mr, md) ==
  /\ pc = "idle"
  /\ config = NoConfig
  /\ args' = [maxReplacements |-> mr, maxDepth |-> md]
  /\ maxReplacements' = mr
  /\ maxDepth' = IF md = -1 THEN DEFAULT_MAX_DEPTH ELSE md
  /\ cur' = [value |-> root, currentCount |-> 0, depth |-> 0]
  /\ visited' = NewWeakSet
  /\ visits' = <<[path |-> <<>>, value |-> root, currentCount |-> 0, depth |-> 0]>>
  /\ pc' = "call"
  /\ UNCHANGED <<heap, input, root, env, caller, config, stack, outcome>>

ThrowDepth ==
  /\ pc = "call"
  /\ DepthCheck(cur.depth, maxDepth)
  /\ Throw(MaxDepthExceededError(maxDepth))
  /\ UNCHANGED <<input, root, env, caller, config, args, maxReplacements, maxDepth, cur, visited, visits>>

ReplaceMatch ==
  /\ pc = "call"
  /\ ~DepthCheck(cur.depth, maxDepth)
  /\ IsMatch(cur.value)
  /\ ~LimitCheck(cur.currentCount + 1, maxReplacements)
  /\ Return(ReplacementValue, cur.currentCount + 1, stack, heap)
  /\ UNCHANGED <<input, root, env, caller, config, args, maxReplacements, maxDepth, cur, visited, visits>>

\* mutant: the match is handled before the depth is checked
ThrowLimit_beforeDepth ==
  /\ pc = "call"
  /\ IsMatch(cur.value)
  /\ LimitCheck(cur.currentCount + 1, maxReplacements)
  /\ Throw(ReplacementLimitExceededError(cur.currentCount + 1, maxReplacements))
  /\ UNCHANGED <<input, root, env, caller, config, args, maxReplacements, maxDepth, cur, visited, visits>>

ThrowLimit ==
  /\ pc = "call"
  /\ ~DepthCheck(cur.depth, maxDepth)
  /\ IsMatch(cur.value)
  /\ LimitCheck(cur.currentCount + 1, maxReplacements)
  /\ Throw(ReplacementLimitExceededError(cur.currentCount + 1, maxReplacements))
  /\ UNCHANGED <<input, root, env, caller, config, args, maxReplacements, maxDepth, cur, visited, visits>>

\* mutant: the container is not recorded as visited
Enter_noAdd(fresh) ==
  /\ heap' = Append(heap, fresh)
  /\ stack' = Append(stack, Frame(cur.value.id, Len(heap) + 1, cur.currentCount, cur.depth))
  /\ pc' = "loop"
  /\ UNCHANGED <<input, root, env, caller, config, args, maxReplacements, maxDepth, cur, outcome,
                 visits, visited>>

\* visited.add(value); totalCount = currentCount; result = [] or {}
Enter(fresh) ==
  /\ visited' = visited \cup {cur.value.id}
  /\ heap' = Append(heap, fresh)
  /\ stack' = Append(stack, Frame(cur.value.id, Len(heap) + 1, cur.currentCount, cur.depth))
  /\ pc' = "loop"
  /\ UNCHANGED <<input, root, env, caller, config, args, maxReplacements, maxDepth, cur, outcome, visits>>

EnterArray ==
  /\ pc = "call"
  /\ ~DepthCheck(cur.depth, maxDepth)
  /\ ~IsMatch(cur.value)
  /\ IsArray(heap, cur.value)
  /\ ~VisitedHas(visited, cur.value)
  /\ Enter(NewArray)

ThrowCircularArray ==
  /\ pc = "call"
  /\ ~DepthCheck(cur.depth, maxDepth)
  /\ ~IsMatch(cur.value)
  /\ IsArray(heap, cur.value)
  /\ VisitedHas(visited, cur.value)
  /\ Throw(CircularReferenceError)
  /\ UNCHANGED <<input, root, env, caller, config, args, maxReplacements, maxDepth, cur, visited, visits>>

EnterObject ==
  /\ pc = "call"
  /\ ~DepthCheck(cur.depth, maxDepth)
  /\ ~IsMatch(cur.value)
  /\ ~IsArray(heap, cur.value)
  /\ IsObject(heap, cur.value)
  /\ ~VisitedHas(visited, cur.value)
  /\ Enter(NewObject)

ThrowCircularObject ==
  /\ pc = "call"
  /\ ~DepthCheck(cur.depth, maxDepth)
  /\ ~IsMatch(cur.value)
  /\ ~IsArray(heap, cur.value)
  /\ IsObject(heap, cur.value)
  /\ VisitedHas(visited, cur.value)
  /\ Throw(CircularReferenceError)
  /\ UNCHANGED <<input, root, env, caller, config, args, maxReplacements, maxDepth, cur, visited, visits>>

PassThrough ==
  /\ pc = "call"
  /\ ~DepthCheck(cur.depth, maxDepth)
  /\ ~IsMatch(cur.value)
  /\ ~IsArray(heap, cur.value)
  /\ ~IsObject(heap, cur.value)
  /\ Return(cur.value, cur.currentCount, stack, heap)
  /\ UNCHANGED <<input, root, env, caller, config, args, maxReplacements, maxDepth, cur, visited, visits>>

\* mutant: the children are taken from the last to the first
Recurse_lastFirst(f) ==
  LET n == Len(heap[f.src].vals)
  IN /\ f.idx <= n
     /\ cur' = [value |-> heap[f.src].vals[n + 1 - f.idx], currentCount |-> f.totalCount,
                depth |-> f.depth + 1]
     /\ visits' = Append(visits, [path |-> PathOf(stack),
                                  value |-> heap[f.src].vals[n + 1 - f.idx],
                                  currentCount |-> f.totalCount, depth |-> f.depth + 1])
     /\ pc' = "call"
     /\ UNCHANGED <<heap, input, root, env, caller, config, args, maxReplacements, maxDepth, stack,
                    visited, outcome>>

\* mutant: the child starts counting from 0 instead of the running count
Recurse_fromZero(f) ==
  /\ f.idx <= Len(heap[f.src].vals)
  /\ cur' = [value |-> heap[f.src].vals[f.idx], currentCount |-> 0, depth |-> f.depth + 1]
  /\ visits' = Append(visits, [path |-> PathOf(stack), value |-> heap[f.src].vals[f.idx],
                               currentCount |-> 0, depth |-> f.depth + 1])
  /\ pc' = "call"
  /\ UNCHANGED <<heap, input, root, env, caller, config, args, maxReplacements, maxDepth, stack,
                 visited, outcome>>

\* one turn of `for (const item of value)` / `for (const [key, val] of
\* Object.entries(value))`: the recursive call on the next child
Recurse(f) ==
  /\ f.idx <= Len(heap[f.src].vals)
  /\ cur' = [value |-> heap[f.src].vals[f.idx], currentCount |-> f.totalCount,
             depth |-> f.depth + 1]
  /\ visits' = Append(visits, [path |-> PathOf(stack), value |-> heap[f.src].vals[f.idx],
                               currentCount |-> f.totalCount, depth |-> f.depth + 1])
  /\ pc' = "call"
  /\ UNCHANGED <<heap, input, root, env, caller, config, args, maxReplacements, maxDepth, stack,
                 visited, outcome>>

NextItem ==
  /\ pc = "loop"
  /\ heap[stack[Len(stack)].src].kind = "array"
  /\ Recurse(stack[Len(stack)])

NextEntry ==
  /\ pc = "loop"
  /\ heap[stack[Len(stack)].src].kind = "object"
  /\ Recurse(stack[Len(stack)])

\* mutant: a container is taken out of the visited set when its call returns
Finish_forget(f) ==
  /\ f.idx > Len(heap[f.src].vals)
  /\ Return(Ref(f.dst), f.totalCount, SubSeq(stack, 1, Len(stack) - 1), heap)
  /\ visited' = visited \ {f.src}
  /\ UNCHANGED <<input, root, env, caller, config, args, maxReplacements, maxDepth, cur, visits>>

\* the loop is over: return { data: result, replacementCount: totalCount }
Finish(f) ==
  /\ f.idx > Len(heap[f.src].vals)
  /\ Return(Ref(f.dst), f.totalCount, SubSeq(stack, 1, Len(stack) - 1), heap)
  /\ UNCHANGED <<input, root, env, caller, config, args, maxReplacements, maxDepth, cur, visited, visits>>

ReturnArray ==
  /\ pc = "loop"
  /\ heap[stack[Len(stack)].src].kind = "array"
  /\ Finish(stack[Len(stack)])

ReturnObject ==
  /\ pc = "loop"
  /\ heap[stack[Len(stack)].src].kind = "object"
  /\ Finish(stack[Len(stack)])

\* const config = loadConfig()
LoadConfig ==
  /\ pc = "idle"
  /\ config = NoConfig
  /\ config' = loadConfig(env)
  /\ UNCHANGED <<heap, input, root, env, caller, args, maxReplacements, maxDepth, pc, cur, stack,
                 visited, outcome, visits>>

\* the limits the callers pass: the small ones, and the 100 of the
\* configuration default and of the tests
Limits == (0..MaxLimit) \cup {loadConfig(DefaultEnv).maxReplacements}

Next ==
  \/ \E mr \in Limits, md \in {-1} \cup 0..MaxDepthArg : Call(mr, md)
  \/ ThrowDepth
  \/ ReplaceMatch
  \/ ThrowLimit
  \/ EnterArray
  \/ ThrowCircularArray
  \/ EnterObject
  \/ ThrowCircularObject
  \/ PassThrough
  \/ NextItem
  \/ NextEntry
  \/ ReturnArray
  \/ ReturnObject
  \/ LoadConfig

Spec == Init /\ [][Next]_vars

(* ---------------- a second call by the same caller ---------------- *)
\* the caller calls replaceDogWithCat again with the same value (the same
\* containers) and the same limits
CallAgain ==
  /\ pc = "done"
  /\ phase = "first"
  /\ request = "none"
  /\ phase' = "again"
  /\ previous' = [outcome |-> outcome, base |-> Len(heap)]
  /\ cur' = [value |-> root, currentCount |-> 0, depth |-> 0]
  /\ visited' = NewWeakSet
  /\ visits' = <<[path |-> <<>>, value |-> root, currentCount |-> 0, depth |-> 0]>>
  /\ outcome' = NoOutcome
  /\ pc' = "call"
  /\ UNCHANGED <<heap, input, root, env, config, args, maxReplacements, maxDepth, stack,
                 request, response>>

\* the caller passes the data of a successful call to a second call, with
\* any limit and the same maxDepth
CallOnOutput(mr) ==
  /\ pc = "done"
  /\ phase = "first"
  /\ request = "none"
  /\ outcome.kind = "ok"
  /\ phase' = "onOutput"
  /\ previous' = [outcome |-> outcome, base |-> Len(heap)]
  /\ args' = [args EXCEPT !.maxReplacements = mr]
  /\ maxReplacements' = mr
  /\ cur' = [value |-> outcome.data, currentCount |-> 0, depth |-> 0]
  /\ visited' = NewWeakSet
  /\ visits' = <<[path |-> <<>>, value |-> outcome.data, currentCount |-> 0, depth |-> 0]>>
  /\ outcome' = NoOutcome
  /\ pc' = "call"
  /\ UNCHANGED <<heap, input, root, env, config, maxDepth, stack, request, response>>

NextOutput ==
  \/ Next
  \/ \E mr \in Limits : CallOnOutput(mr)

SpecOutput == Init /\ [][NextOutput]_vars

NextRepeat ==
  \/ Next
  \/ CallAgain

SpecRepeat == Init /\ [][NextRepeat]_vars

TypeOK ==
  /\ pc \in {"idle", "call", "loop", "ucall", "uloop", "done"}
  /\ visited \subseteq 1..Len(heap)
  /\ outcome.kind \in {"none", "ok", "ReplacementLimitExceededError",
                       "CircularReferenceError", "MaxDepthExceededError"}

(* ---------------- routes/replace.ts: replaceHandler ---------------- *)
\* the steps of a running call of replaceDogWithCat
Traverse ==
  \/ ThrowDepth
  \/ ReplaceMatch
  \/ ThrowLimit
  \/ EnterArray
  \/ ThrowCircularArray
  \/ EnterObject
  \/ ThrowCircularObject
  \/ PassThrough
  \/ NextItem
  \/ NextEntry
  \/ ReturnArray
  \/ ReturnObject

\* requests: the inputs of the replacer as bodies, and arrays of matches under
\* every value of MAX_REPLACEMENTS
HandlerWorlds ==
  Worlds
  \cup {[heap |-> h, root |-> Ref(1), env |-> [PORT |-> Unset, MAX_REPLACEMENTS |-> m]] :
          h \in DogArrays, m \in MaxReplacementsEnvs}

\* a request has reached replaceHandler, req.body is root
InitHandler ==
  /\ \E w \in HandlerWorlds : heap = w.heap /\ root = w.root /\ env = w.env
  /\ input = heap
  /\ config = NoConfig
  /\ args = NoArgs
  /\ maxReplacements = 0
  /\ maxDepth = 0
  /\ pc = "idle"
  /\ cur = NoCall
  /\ stack = <<>>
  /\ visited = {}
  /\ outcome = NoOutcome
  /\ visits = <<>>
  /\ phase = "first"
  /\ previous = NoPrevious
  /\ request = "received"
  /\ response = NoResponse

\* mutants: every falsy body counts as missing; every typed failure of the
\* replacer is answered as a limit failure
BodyMissing_falsy(body) == body \in {Undef, Null}
IsLimitError_anyTyped(o) ==
  o.kind \in {"ReplacementLimitExceededError", "CircularReferenceError",
              "MaxDepthExceededError"}

\* req.body === undefined
BodyMissing(body) == body = Undef

\* error instanceof ReplacementLimitExceededError
IsLimitError(o) == o.kind = "ReplacementLimitExceededError"

\* the bodies of the responses; has: the fields the body holds
InvalidRequest ==
  [status |-> 400, has |-> {"error", "message"}, error |-> "Invalid request",
   message |-> [text |-> "Request body is required and must be valid JSON",
                count |-> 0, limit |-> 0],
   data |-> Undef, replacements |-> 0, limit |-> 0]
Success(result) ==
  [status |-> 200, has |-> {"data", "replacements"}, error |-> "",
   message |-> [text |-> "", count |-> 0, limit |-> 0],
   data |-> result.data, replacements |-> result.replacementCount, limit |-> 0]
LimitExceeded(error) ==
  [status |-> 400, has |-> {"error", "message", "replacements", "limit"},
   error |-> "Replacement limit exceeded",
   message |-> [text |-> "Replacement limit exceeded: ${replacementCount} replacements (limit: ${limit})",
                count |-> error.replacementCount, limit |-> error.limit],
   data |-> Undef, replacements |-> error.replacementCount, limit |-> error.limit]
InternalServerError ==
  [status |-> 500, has |-> {"error", "message"}, error |-> "Internal server error",
   message |-> [text |-> "An unexpected error occurred while processing the request",
                count |-> 0, limit |-> 0],
   data |-> Undef, replacements |-> 0, limit |-> 0]

\* if (req.body === undefined) { res.status(400)...; return; }
RejectMissingBody ==
  /\ request = "received"
  /\ BodyMissing(root)
  /\ response' = InvalidRequest
  /\ request' = "responded"
  /\ UNCHANGED <<heap, input, root, env, config, args, maxReplacements, maxDepth, pc, cur,
                 stack, visited, outcome, visits, phase, previous>>

\* const config = loadConfig() throws: caught by the handler's catch
ConfigThrows ==
  /\ request = "received"
  /\ ~BodyMissing(root)
  /\ loadConfig(env).status # "ok"
  /\ config' = loadConfig(env)
  /\ response' = InternalServerError
  /\ request' = "responded"
  /\ UNCHANGED <<heap, input, root, env, args, maxReplacements, maxDepth, pc, cur,
                 stack, visited, outcome, visits, phase, previous>>

\* const config = loadConfig(); replaceDogWithCat(req.body, config.maxReplacements)
HandlerCall ==
  /\ request = "received"
  /\ ~BodyMissing(root)
  /\ loadConfig(env).status = "ok"
  /\ config' = loadConfig(env)
  /\ args' = [maxReplacements |-> loadConfig(env).maxReplacements, maxDepth |-> -1]
  /\ maxReplacements' = loadConfig(env).maxReplacements
  /\ maxDepth' = DEFAULT_MAX_DEPTH
  /\ cur' = [value |-> root, currentCount |-> 0, depth |-> 0]
  /\ visited' = NewWeakSet
  /\ visits' = <<[path |-> <<>>, value |-> root, currentCount |-> 0, depth |-> 0]>>
  /\ pc' = "call"
  /\ request' = "core"
  /\ UNCHANGED <<heap, input, root, env, stack, outcome, phase, previous, response>>

\* res.status(200).json({ data: result.data, replacements: result.replacementCount })
SendResult ==
  /\ request = "core"
  /\ pc = "done"
  /\ outcome.kind = "ok"
  /\ response' = Success(outcome)
  /\ request' = "responded"
  /\ UNCHANGED <<heap, input, root, env, config, args, maxReplacements, maxDepth, pc, cur,
                 stack, visited, outcome, visits, phase, previous>>

\* catch (error): if (error instanceof ReplacementLimitExceededError) 400
SendLimitExceeded ==
  /\ request = "core"
  /\ pc = "done"
  /\ outcome.kind # "ok"
  /\ IsLimitError(outcome)
  /\ response' = LimitExceeded(outcome)
  /\ request' = "responded"
  /\ UNCHANGED <<heap, input, root, env, config, args, maxReplacements, maxDepth, pc, cur,
                 stack, visited, outcome, visits, phase, previous>>

\* catch (error): any other error, 500
SendInternalError ==
  /\ request = "core"
  /\ pc = "done"
  /\ outcome.kind # "ok"
  /\ ~IsLimitError(outcome)
  /\ response' = InternalServerError
  /\ request' = "responded"
  /\ UNCHANGED <<heap, input, root, env, config, args, maxReplacements, maxDepth, pc, cur,
                 stack, visited, outcome, visits, phase, previous>>

\* replaceDogWithCat is synchronous: once called it runs to its return or throw
FairSpec == Spec /\ WF_vars(Traverse)

NextHandler ==
  \/ RejectMissingBody
  \/ ConfigThrows
  \/ HandlerCall
  \/ Traverse
  \/ SendResult
  \/ SendLimitExceeded
  \/ SendInternalError

SpecHandler == InitHandler /\ [][NextHandler]_vars

(* ---------------- vocabulary of the properties ---------------- *)
Failures == {"ReplacementLimitExceededError", "CircularReferenceError",
             "MaxDepthExceededError"}
Done == pc = "done"
Succeeded == pc = "done" /\ outcome.kind = "ok"
Failed == pc = "done" /\ outcome.kind \in Failures

Max(S) == CHOOSE x \in S : \A y \in S : y <= x

\* the containers each container of h refers to directly
Children(h) ==
  [i \in 1..Len(h) |->
     {h[i].vals[k].id : k \in {j \in 1..Len(h[i].vals) : IsRef(h[i].vals[j])}}]

\* transitive closure, by doubling the length of the paths
RECURSIVE Closure(_)
Closure(R) ==
  LET R2 == [i \in DOMAIN R |-> R[i] \cup UNION {R[j] : j \in R[i]}]
  IN IF R2 = R THEN R ELSE Closure(R2)

\* the containers below each container of h
Descendants(h) == Closure(Children(h))

\* the positions <<container, index>> of the entries of the containers in S
Positions(h, S) == UNION { {<<i, k>> : k \in 1..Len(h[i].vals)} : i \in S }

\* What the properties need to know of the structure below value v in heap
\* h, computed once:
\*   reachable     the containers reachable from v
\*   cyclic        some reachable container can be reached from itself
\*   tree          no container identity is reachable twice: no cycle, and
\*                 every container below the root is the value of exactly one
\*                 reachable entry
\*   matches       the number of reachable scalar entries holding the match
\*                 value (v itself when it is a scalar)
\*   maxNodeDepth  on a tree, the depth of the deepest node, scalar or
\*                 container, v being at depth 0
Facts(h, v) ==
  LET D == Descendants(h)
      R == IF IsRef(v) THEN {v.id} \cup D[v.id] ELSE {}
      P == Positions(h, R)
      cyclic == \E i \in R : i \in D[i]
      tree == /\ ~cyclic
              /\ \A j \in R \ {v.id} :
                   Cardinality({p \in P : h[p[1]].vals[p[2]] = Ref(j)}) = 1
      depthOf(j) == Cardinality({i \in R : j \in D[i]})
  IN [reachable |-> R,
      cyclic |-> cyclic,
      tree |-> tree,
      matches |-> IF IsRef(v)
                  THEN Cardinality({p \in P : h[p[1]].vals[p[2]] = Str("dog")})
                  ELSE IF v = Str("dog") THEN 1 ELSE 0,
      maxNodeDepth |-> IF IsRef(v) /\ tree
                       THEN Max({depthOf(j) + (IF Len(h[j].vals) > 0 THEN 1 ELSE 0) : j \in R})
                       ELSE 0]

\* the input is a tree that lies within the depth limit md
WithinDepth(F, md) == F.tree /\ F.maxNodeDepth <= md

\* The containers of an input are numbered in the order a depth-first walk
\* meets them and a successful call builds one container per input container
\* in that order, after the input: this is the container built for i.
Built(i) == Len(input) + i

ReplacedValue(v) ==
  IF IsRef(v) THEN Ref(Built(v.id)) ELSE IF v = Str("dog") THEN Str("cat") ELSE v

\* the result is the input with every match replaced by 'cat' and nothing
\* else changed: same kinds, same keys in the same order, same positions
Replaced(data) ==
  /\ data = ReplacedValue(root)
  /\ \A i \in 1..Len(input) :
       /\ Len(heap) >= Built(i)
       /\ heap[Built(i)].kind = input[i].kind
       /\ heap[Built(i)].keys = input[i].keys
       /\ Len(heap[Built(i)].vals) = Len(input[i].vals)
       /\ \A k \in 1..Len(input[i].vals) :
            heap[Built(i)].vals[k] = ReplacedValue(input[i].vals[k])

\* the number of visits of the log that met the match value
MatchVisits(log) == Cardinality({k \in 1..Len(log) : log[k].value = Str("dog")})

HasProtoKey(h) == \E i \in 1..Len(h) : \E k \in 1..Len(h[i].keys) : h[i].keys[k] = "__proto__"

(* ---------------- utils/replacer.ts, earlier version: replaceDogWithCat ---------------- *)
\* The version without the depth and visited parameters. It runs as a second
\* machine (pc "ucall", "uloop") on the same heap, after a call of the guarded
\* version on the same value, so that the two outcomes can be compared.

\* newCount > maxReplacements
UnguardedLimitCheck(newCount, limit) == newCount > limit

UnguardedReturn(data, count, stk, hp) ==
  IF stk = <<>>
  THEN /\ outcome' = Ok(data, count)
       /\ pc' = "done"
       /\ stack' = stk
       /\ heap' = hp
  ELSE LET f == stk[Len(stk)]
           c == hp[f.src]
       IN /\ heap' = [hp EXCEPT ![f.dst] =
                        IF c.kind = "array" THEN ArrayPush(@, data)
                        ELSE ObjSet(@, c.keys[f.idx], data)]
          /\ stack' = [stk EXCEPT ![Len(stk)] =
                         [f EXCEPT !.idx = @ + 1, !.totalCount = count]]
          /\ pc' = "uloop"
          /\ outcome' = outcome

\* replaceDogWithCat(value, maxReplacements) of the earlier version, with the
\* value and the limit of the guarded call before it. On a value that contains
\* itself this version does not return (it recurses until the engine gives
\* up), so the caller passes it values that do not.
CallUnguarded ==
  /\ pc = "done"
  /\ phase = "first"
  /\ request = "none"
  /\ ~Facts(input, root).cyclic
  /\ phase' = "unguarded"
  /\ previous' = [outcome |-> outcome, base |-> Len(heap)]
  /\ cur' = [value |-> root, currentCount |-> 0, depth |-> 0]
  /\ visits' = <<[path |-> <<>>, value |-> root, currentCount |-> 0, depth |-> 0]>>
  /\ outcome' = NoOutcome
  /\ pc' = "ucall"
  /\ UNCHANGED <<heap, input, root, env, config, args, maxReplacements, maxDepth, stack,
                 visited, request, response>>

UnguardedReplaceMatch ==
  /\ pc = "ucall"
  /\ IsMatch(cur.value)
  /\ ~UnguardedLimitCheck(cur.currentCount + 1, maxReplacements)
  /\ UnguardedReturn(Str("cat"), cur.currentCount + 1, stack, heap)
  /\ UNCHANGED <<input, root, env, caller, config, args, maxReplacements, maxDepth, cur, visited, visits>>

UnguardedThrowLimit ==
  /\ pc = "ucall"
  /\ IsMatch(cur.value)
  /\ UnguardedLimitCheck(cur.currentCount + 1, maxReplacements)
  /\ Throw(ReplacementLimitExceededError(cur.currentCount + 1, maxReplacements))
  /\ UNCHANGED <<input, root, env, caller, config, args, maxReplacements, maxDepth, cur, visited, visits>>

\* totalCount = currentCount; result = [] or {}
UnguardedEnter(fresh) ==
  /\ heap' = Append(heap, fresh)
  /\ stack' = Append(stack, Frame(cur.value.id, Len(heap) + 1, cur.currentCount, 0))
  /\ pc' = "uloop"
  /\ UNCHANGED <<input, root, env, caller, config, args, maxReplacements, maxDepth, cur, outcome,
                 visited, visits>>

UnguardedEnterArray ==
  /\ pc = "ucall"
  /\ ~IsMatch(cur.value)
  /\ IsArray(heap, cur.value)
  /\ UnguardedEnter(NewArray)

UnguardedEnterObject ==
  /\ pc = "ucall"
  /\ ~IsMatch(cur.value)
  /\ ~IsArray(heap, cur.value)
  /\ IsObject(heap, cur.value)
  /\ UnguardedEnter(NewObject)

UnguardedPassThrough ==
  /\ pc = "ucall"
  /\ ~IsMatch(cur.value)
  /\ ~IsArray(heap, cur.value)
  /\ ~IsObject(heap, cur.value)
  /\ UnguardedReturn(cur.value, cur.currentCount, stack, heap)
  /\ UNCHANGED <<input, root, env, caller, config, args, maxReplacements, maxDepth, cur, visited, visits>>

\* the recursive call on the next child: replaceDogWithCat(item,
\* maxReplacements, totalCount)
UnguardedRecurse(f) ==
  /\ f.idx <= Len(heap[f.src].vals)
  /\ cur' = [value |-> heap[f.src].vals[f.idx], currentCount |-> f.totalCount, depth |-> 0]
  /\ visits' = Append(visits, [path |-> PathOf(stack), value |-> heap[f.src].vals[f.idx],
                               currentCount |-> f.totalCount, depth |-> 0])
  /\ pc' = "ucall"
  /\ UNCHANGED <<heap, input, root, env, caller, config, args, maxReplacements, maxDepth, stack,
                 visited, outcome>>

UnguardedNextItem ==
  /\ pc = "uloop"
  /\ heap[stack[Len(stack)].src].kind = "array"
  /\ UnguardedRecurse(stack[Len(stack)])

UnguardedNextEntry ==
  /\ pc = "uloop"
  /\ heap[stack[Len(stack)].src].kind = "object"
  /\ UnguardedRecurse(stack[Len(stack)])

UnguardedFinish(f) ==
  /\ f.idx > Len(heap[f.src].vals)
  /\ UnguardedReturn(Ref(f.dst), f.totalCount, SubSeq(stack, 1, Len(stack) - 1), heap)
  /\ UNCHANGED <<input, root, env, caller, config, args, maxReplacements, maxDepth, cur, visited, visits>>

UnguardedReturnArray ==
  /\ pc = "uloop"
  /\ heap[stack[Len(stack)].src].kind = "array"
  /\ UnguardedFinish(stack[Len(stack)])

UnguardedReturnObject ==
  /\ pc = "uloop"
  /\ heap[stack[Len(stack)].src].kind = "object"
  /\ UnguardedFinish(stack[Len(stack)])

NextVersions ==
  \/ Next
  \/ CallUnguarded
  \/ UnguardedReplaceMatch
  \/ UnguardedThrowLimit
  \/ UnguardedEnterArray
  \/ UnguardedEnterObject
  \/ UnguardedPassThrough
  \/ UnguardedNextItem
  \/ UnguardedNextEntry
  \/ UnguardedReturnArray
  \/ UnguardedReturnObject

SpecVersions == Init /\ [][NextVersions]_vars

(* ---------------- C1 ---------------- *)
\* C1: for every tree-shaped input whose nodes all lie at depth <= maxDepth
\* and which holds exactly k scalars equal to 'dog', and every
\* maxReplacements >= k, the call succeeds with replacementCount = k, each of
\* the k positions holds 'cat' in the result and every other scalar position
\* holds the value of the input ('hotdog' is not replaced).
C1_ExactCount ==
  Done =>
    LET F == Facts(input, root)
    IN (WithinDepth(F, maxDepth) /\ F.matches <= maxReplacements)
         => /\ outcome.kind = "ok"
            /\ outcome.replacementCount = F.matches
            /\ Replaced(outcome.data)

\* The same statement for the inputs none of whose objects has the key
\* __proto__: it holds there, so the assignment result[key] is the only cause.
C1_ExactCountWithoutProtoKey == HasProtoKey(input) \/ C1_ExactCount

(* ---------------- C2 ---------------- *)
\* C2: for every maxReplacements >= 1, where the depth and cycle guards do not
\* fire, an input with exactly maxReplacements matches succeeds with
\* replacementCount = maxReplacements and an input with more matches fails
\* with ReplacementLimitExceeded; every such failure carries count =
\* maxReplacements + 1 and limit = maxReplacements (not the number of matches
\* of the input) and is raised at the (maxReplacements+1)-th match visited.
C2_LimitBoundary ==
  (Done /\ maxReplacements >= 1) =>
    LET F == Facts(input, root)
    IN /\ outcome.kind = "ReplacementLimitExceededError"
            => /\ outcome.replacementCount = maxReplacements + 1
               /\ outcome.limit = maxReplacements
               /\ visits[Len(visits)].value = Str("dog")
               /\ MatchVisits(visits) = maxReplacements + 1
       /\ WithinDepth(F, maxDepth)
            => /\ F.matches = maxReplacements
                    => outcome.kind = "ok" /\ outcome.replacementCount = maxReplacements
               /\ F.matches > maxReplacements
                    => outcome.kind = "ReplacementLimitExceededError"

\* an input with more matches than maxReplacements + 1 was refused at the
\* (maxReplacements+1)-th
C2_Witness ==
  /\ Done /\ maxReplacements >= 1
  /\ outcome = ReplacementLimitExceededError(maxReplacements + 1, maxReplacements)
  /\ LET F == Facts(input, root)
     IN WithinDepth(F, maxDepth) /\ F.matches > maxReplacements + 1

(* ---------------- C3 ---------------- *)
\* C3: with the root at depth 0, where the limit and cycle guards do not fire,
\* a structure whose deepest node is at depth maxDepth succeeds and a
\* structure with a node at depth maxDepth + 1 fails with DepthExceeded
\* carrying maxDepth, for every maxDepth >= 0; maxDepth is 100 when the caller
\* omits it.
C3_DepthBoundary ==
  /\ pc # "idle" => maxDepth = (IF args.maxDepth = -1 THEN 100 ELSE args.maxDepth)
  /\ Done =>
       LET F == Facts(input, root)
       IN (F.tree /\ F.matches <= maxReplacements)
            => /\ F.maxNodeDepth <= maxDepth => outcome.kind = "ok"
               /\ F.maxNodeDepth > maxDepth => outcome = MaxDepthExceededError(maxDepth)

\* the caller omitted maxDepth and the input is nested 101 levels deep
C3_Witness ==
  /\ Done /\ args.maxDepth = -1
  /\ outcome = MaxDepthExceededError(100)
  /\ LET F == Facts(input, root)
     IN F.tree /\ F.matches <= maxReplacements /\ F.maxNodeDepth = maxDepth + 1

\* the caller omitted maxDepth and the input is nested exactly 100 levels deep
C3_WitnessAtLimit ==
  /\ Succeeded /\ args.maxDepth = -1
  /\ Facts(input, root).maxNodeDepth = maxDepth

ValueOfKey(c, key) == c.vals[CHOOSE k \in 1..Len(c.keys) : c.keys[k] = key]
KeySet(c) == {c.keys[k] : k \in 1..Len(c.keys)}

\* what an unchanged copy of input value v is
CopyOf(v) == IF IsRef(v) THEN Ref(Built(v.id)) ELSE v

\* data is deep-equal to the input: arrays element by element, objects key
\* by key
DeepEqualToInput(data) ==
  /\ data = CopyOf(root)
  /\ \A i \in 1..Len(input) :
       /\ Len(heap) >= Built(i)
       /\ heap[Built(i)].kind = input[i].kind
       /\ Len(heap[Built(i)].vals) = Len(input[i].vals)
       /\ IF input[i].kind = "array"
          THEN \A k \in 1..Len(input[i].vals) :
                 heap[Built(i)].vals[k] = CopyOf(input[i].vals[k])
          ELSE /\ KeySet(heap[Built(i)]) = KeySet(input[i])
               /\ \A key \in KeySet(input[i]) :
                    ValueOfKey(heap[Built(i)], key) = CopyOf(ValueOfKey(input[i], key))

\* C5: for every input that holds no match and on which no guard fires, the
\* call returns a result deep-equal to the input with replacementCount = 0;
\* null, booleans, numbers, undefined and non-matching strings pass through
\* unchanged.
C5_FixedPoint ==
  Done =>
    LET F == Facts(input, root)
    IN (F.matches = 0 /\ WithinDepth(F, maxDepth))
         => /\ outcome.kind = "ok"
            /\ outcome.replacementCount = 0
            /\ DeepEqualToInput(outcome.data)

\* C5 restricted to the inputs none of whose objects has the key __proto__
C5_FixedPointWithoutProtoKey == HasProtoKey(input) \/ C5_FixedPoint

(* ---------------- C6 ---------------- *)
\* C6: on every successful call each output array has the length of its input
\* array with element i the transform of input element i, and each output
\* object has the keys of its input object in the same order; a key equal to
\* the match value is neither replaced nor counted.
C6_ShapePreserved ==
  Succeeded =>
    /\ outcome.replacementCount = Facts(input, root).matches
    /\ \A i \in 1..Len(input) :
         /\ Len(heap) >= Built(i)
         /\ input[i].kind = "array"
              => /\ heap[Built(i)].kind = "array"
                 /\ Len(heap[Built(i)].vals) = Len(input[i].vals)
                 /\ \A k \in 1..Len(input[i].vals) :
                      heap[Built(i)].vals[k] = ReplacedValue(input[i].vals[k])
         /\ input[i].kind = "object"
              => /\ heap[Built(i)].kind = "object"
                 /\ heap[Built(i)].keys = input[i].keys

\* C6 restricted to the inputs none of whose objects has the key __proto__
C6_ShapePreservedWithoutProtoKey == HasProtoKey(input) \/ C6_ShapePreserved

(* ---------------- C7 ---------------- *)
\* C7, as claimed: no call made with maxReplacements = 0 returns a successful
\* outcome, whatever the input, and the configuration loader never yields
\* maxReplacements < 1.
C7_ZeroLimitNeverSucceeds ==
  /\ (Done /\ maxReplacements = 0) => outcome.kind # "ok"
  /\ config.status = "ok" => config.maxReplacements >= 1

\* C7, amended: the configuration loader rejects maxReplacements = 0 (it never
\* yields maxReplacements < 1); the replacer itself does not: where the depth
\* and cycle guards do not fire, a call with maxReplacements = 0 succeeds with
\* count 0 on an input without a match and fails with
\* ReplacementLimitExceeded(count 1, limit 0) on an input with a match.
C7_ZeroLimit ==
  /\ config.status = "ok" => config.maxReplacements >= 1
  /\ (Done /\ maxReplacements = 0) =>
       LET F == Facts(input, root)
       IN /\ outcome.kind = "ok" => outcome.replacementCount = 0 /\ MatchVisits(visits) = 0
          /\ WithinDepth(F, maxDepth)
               => /\ F.matches = 0 => outcome.kind = "ok"
                  /\ F.matches > 0 => outcome = ReplacementLimitExceededError(1, 0)

\* a call with maxReplacements = 0 succeeded on a container
C7_Witness == Succeeded /\ maxReplacements = 0 /\ IsRef(root)

\* the loader refused MAX_REPLACEMENTS=0
C7_WitnessLoader ==
  config.status = "Invalid MAX_REPLACEMENTS" /\ env.MAX_REPLACEMENTS = Chars(<<"0">>)

(* ---------------- C8 ---------------- *)
\* C8: a node reached at depth > maxDepth fails the call with DepthExceeded,
\* also when it is a match that would exceed maxReplacements and when it is a
\* container already in the visited set; and a container already in the
\* visited set fails the call before any of its children is visited.
C8_DepthCheckedFirst ==
  [][ /\ (pc = "call" /\ cur.depth > maxDepth)
           => (pc' = "done" /\ outcome' = MaxDepthExceededError(maxDepth))
      /\ (pc = "call" /\ cur.depth <= maxDepth /\ IsRef(cur.value)
            /\ cur.value.id \in visited)
           => (pc' = "done" /\ outcome' = CircularReferenceError /\ visits' = visits)
    ]_vars

\* a match over the limit, met below the depth limit
C8_Witness ==
  /\ Done /\ outcome.kind = "MaxDepthExceededError"
  /\ cur.value = Str("dog") /\ cur.currentCount + 1 > maxReplacements

\* a container already visited, met below the depth limit
C8_WitnessVisited ==
  /\ Done /\ outcome.kind = "MaxDepthExceededError"
  /\ IsRef(cur.value) /\ cur.value.id \in visited

(* ---------------- C9 ---------------- *)
\* C9: every call ends in exactly one of four outcomes: a complete transformed
\* structure with its count, ReplacementLimitExceeded, DepthExceeded or
\* CircularReference; once a node has failed no further node is visited, and
\* a failure carries no partly transformed structure.
C9_AllOrNothing ==
  /\ [](Done => /\ outcome.kind \in {"ok"} \cup Failures
                /\ stack = <<>>
                /\ outcome.kind = "ok"
                     => /\ visited = 1..Len(input)
                        /\ Len(visits) = 1 + Cardinality(Positions(input, 1..Len(input)))
                /\ outcome.kind \in Failures => outcome.data = Undef)
  /\ [][outcome.kind \in Failures => (pc' = "done" /\ visits' = visits /\ outcome' = outcome)]_vars

\* a failure below the root, with siblings left unvisited
C9_Witness ==
  /\ Failed /\ Len(visits) > 1
  /\ Len(visits) < 1 + Cardinality(Positions(input, 1..Len(input)))

(* ---------------- C10 ---------------- *)
Front(p) == SubSeq(p, 1, Len(p) - 1)
Last(p) == p[Len(p)]

\* path q is the first child of p, or the next sibling of p or of one of the
\* containers p lies in
NextInOrder(p, q) ==
  \/ q = Append(p, 1)
  \/ \E m \in 1..Len(p) : q = Append(SubSeq(p, 1, m - 1), p[m] + 1)

\* the failure the k-th visit of the log meets, from the log alone
FailureAt(log, k) ==
  IF log[k].depth > maxDepth THEN "MaxDepthExceededError"
  ELSE IF log[k].value = Str("dog")
       THEN IF log[k].currentCount + 1 > maxReplacements
            THEN "ReplacementLimitExceededError" ELSE "none"
       ELSE IF IsRef(log[k].value) /\ \E j \in 1..(k - 1) : log[j].value = log[k].value
            THEN "CircularReferenceError" ELSE "none"

C10_WitnessReordered ==
  /\ Done /\ outcome.kind = "CircularReferenceError"
  /\ Facts(input, root).matches > maxReplacements

(* ---------------- C11 ---------------- *)
\* the value of the k-th visit of the log was visited before
VisitedBefore(log, k) == \E j \in 1..(k - 1) : log[j].value = log[k].value

\* C11: when a container is reachable from the root by two different paths
\* (as an ancestor of itself or as a shared child of sibling branches) the
\* call never succeeds; it fails with CircularReference whenever
\* maxReplacements is at least the number of matching entries and maxDepth at
\* least the number of containers (so that no limit or depth failure comes
\* first), and a CircularReference is raised at the second visit of a
\* container, the first repeated visit of the traversal; a container added to
\* the visited set is never removed during the call.
C11_SharedRejected ==
  /\ [](Done =>
         /\ LET F == Facts(input, root)
            IN ~F.tree
                 => /\ outcome.kind \in Failures
                    /\ (F.matches <= maxReplacements /\ Cardinality(F.reachable) <= maxDepth)
                         => outcome = CircularReferenceError
         /\ outcome.kind = "CircularReferenceError"
              => /\ IsRef(visits[Len(visits)].value)
                 /\ VisitedBefore(visits, Len(visits))
                 /\ \A k \in 1..(Len(visits) - 1) :
                      IsRef(visits[k].value) => ~VisitedBefore(visits, k))
  /\ [][visited \subseteq visited']_vars

\* two sibling branches share a container and no container contains itself:
\* the first visit had returned when the second one failed
C11_Witness ==
  /\ Done /\ outcome = CircularReferenceError
  /\ ~Facts(input, root).cyclic
  /\ \E j \in 1..(Len(visits) - 1) :
       /\ visits[j].value = visits[Len(visits)].value
       /\ Len(visits[j].path) = Len(visits[Len(visits)].path)

(* ---------------- C12 ---------------- *)
\* the containers the second call built, in the order it built them
SecondBuilt == (previous.base + 1)..Len(heap)

\* value w of the second result is value v of the first result: the same
\* scalar, or the container built at the same rank
SameRank(v, w) ==
  IF IsRef(v) THEN IsRef(w) /\ w.id - previous.base = v.id - Len(input) ELSE w = v

\* the outcome of the second call is that of the first: the same failure with
\* the same payload, or the same count and deep-equal data
SameAsFirst ==
  LET first == previous.outcome
  IN /\ outcome.kind = first.kind
     /\ outcome.replacementCount = first.replacementCount
     /\ outcome.limit = first.limit
     /\ outcome.maxDepth = first.maxDepth
     /\ SameRank(first.data, outcome.data)
     /\ outcome.kind = "ok" =>
          /\ Len(heap) - previous.base = previous.base - Len(input)
          /\ \A c \in SecondBuilt :
               LET a == heap[c - previous.base + Len(input)]
                   b == heap[c]
               IN /\ b.kind = a.kind
                  /\ b.keys = a.keys
                  /\ SameRank(a.proto, b.proto)
                  /\ Len(b.vals) = Len(a.vals)
                  /\ \A k \in 1..Len(a.vals) : SameRank(a.vals[k], b.vals[k])

\* C12: a second top-level call with the same value (the same containers) and
\* the same limits starts from an empty visited set and a count of 0 and ends
\* with the outcome of the first call: the same failure with the same
\* payload, or the same count and deep-equal data; in particular it does not
\* raise CircularReference after a first call that succeeded.
C12_CallsIndependent ==
  phase = "again" =>
    /\ visits[1].currentCount = 0
    /\ Len(visits) = 1 /\ pc = "call" => visited = {}
    /\ visited \subseteq 1..Len(input)
    /\ Done => SameAsFirst

\* the second call succeeded on containers the first call had visited
C12_Witness ==
  /\ phase = "again" /\ Succeeded
  /\ Len(input) > 1 /\ outcome.replacementCount > 0

\* the second call failed as the first one did
C12_WitnessFailure ==
  /\ phase = "again" /\ Failed
  /\ outcome.kind = "CircularReferenceError"

(* ---------------- C13 ---------------- *)
\* the containers built since the caller made the input
BuiltCells == (Len(input) + 1)..Len(heap)

\* C13: at every point of a call, and after it whether it succeeded or
\* failed, every input array and object has the elements, keys and values
\* (and prototype) it had before the call; every container of a result is a
\* container built by the call, distinct from every input container, and
\* refers to built containers only.
C13_InputUntouched ==
  /\ Len(heap) >= Len(input)
  /\ \A i \in 1..Len(input) : heap[i] = input[i]
  /\ \A c \in BuiltCells :
       /\ IsRef(heap[c].proto) => heap[c].proto.id \in BuiltCells
       /\ \A k \in 1..Len(heap[c].vals) :
            IsRef(heap[c].vals[k]) => heap[c].vals[k].id \in BuiltCells
  /\ (Done /\ IsRef(outcome.data)) => outcome.data.id \in BuiltCells

\* a call returned a structure of several containers, one built for a key
\* __proto__
C13_Witness ==
  /\ Succeeded /\ Len(input) > 1
  /\ \E c \in BuiltCells : IsRef(heap[c].proto)

\* a call failed after building a part of a result
C13_WitnessFailed == Failed /\ Len(heap) > Len(input) + 1

(* ---------------- C14 ---------------- *)
Responded == request = "responded"

\* C14: a request whose body is undefined is answered 400 'Invalid request'
\* and replaceDogWithCat is not called; for a request whose body is defined
\* (null included) and a configuration that loads, the replacer is called on
\* the body with the maxReplacements loadConfig returned for this request;
\* when it succeeds the answer is 200 with its data and with replacements =
\* its replacementCount, and when it raises ReplacementLimitExceeded the
\* answer is 400 'Replacement limit exceeded' with replacements = the count of
\* the failure and limit = the limit loadConfig returned.
C14_TransportMapping ==
  Responded =>
    IF root = Undef
    THEN response = InvalidRequest /\ pc = "idle" /\ visits = <<>>
    ELSE config = loadConfig(env)
         /\ (config.status = "ok" =>
               /\ pc = "done"
               /\ visits[1].value = root
               /\ maxReplacements = config.maxReplacements
               /\ outcome.kind = "ok" =>
                    /\ response.status = 200
                    /\ response.has = {"data", "replacements"}
                    /\ response.data = outcome.data
                    /\ response.replacements = outcome.replacementCount
               /\ outcome.kind = "ReplacementLimitExceededError" =>
                    /\ response.status = 400
                    /\ response.error = "Replacement limit exceeded"
                    /\ response.has = {"error", "message", "replacements", "limit"}
                    /\ response.replacements = outcome.replacementCount
                    /\ response.replacements = config.maxReplacements + 1
                    /\ response.limit = config.maxReplacements)

\* a limit set by MAX_REPLACEMENTS was exceeded by the body of a request
C14_Witness ==
  /\ Responded /\ response.status = 400 /\ response.limit >= 1
  /\ env.MAX_REPLACEMENTS # Unset
  /\ response.replacements = response.limit + 1

\* a body of null was processed and answered 200
C14_WitnessNull == Responded /\ root = Null /\ response.status = 200

\* a missing body was refused
C14_WitnessMissing == Responded /\ root = Undef /\ response.status = 400

(* ---------------- C15 ---------------- *)
\* the containers whose call is active: the ancestors of the node at hand
ActivePath == {stack[i].src : i \in 1..Len(stack)}

IsPrefix(p, q) == Len(p) <= Len(q) /\ SubSeq(q, 1, Len(p)) = p

\* the last visit of the log met a container that is one of its ancestors
LastIsAncestor(log) ==
  \E j \in 1..(Len(log) - 1) :
    /\ log[j].value = log[Len(log)].value
    /\ IsPrefix(log[j].path, log[Len(log)].path)

\* the containers the traversal has entered so far: every container visited,
\* but the one at hand when its call has not passed the guards
EnteredIds ==
  {visits[k].value.id :
     k \in {j \in 1..Len(visits) :
              /\ IsRef(visits[j].value)
              /\ (j < Len(visits) \/ pc = "loop" \/ Succeeded)}}

\* C15, as claimed: at every point of a traversal the visited set holds
\* exactly the containers being descended into (the ancestors of the current
\* node), and CircularReference is raised exactly when the container entered
\* is such an ancestor.
C15_VisitedIsActivePath ==
  /\ pc \in {"call", "loop"} => visited = ActivePath
  /\ (Done /\ outcome.kind = "CircularReferenceError") => LastIsAncestor(visits)

\* C15, amended: at every point of a traversal the visited set holds exactly
\* the containers entered so far in this call, those whose call has returned
\* included; it contains the ancestors of the current node. A call ends with
\* CircularReference exactly when its last visit, within maxDepth, met a
\* container visited before, an ancestor or not.
C15_VisitedIsEntered ==
  /\ pc \in {"call", "loop", "done"} => visited = EnteredIds
  /\ ActivePath \subseteq visited
  /\ Done =>
       (outcome.kind = "CircularReferenceError"
          <=> /\ IsRef(visits[Len(visits)].value)
              /\ visits[Len(visits)].depth <= maxDepth
              /\ VisitedBefore(visits, Len(visits)))

\* CircularReference on a container that is in the visited set and is not an
\* ancestor of the node at hand
C15_Witness ==
  /\ Done /\ outcome.kind = "CircularReferenceError"
  /\ ~LastIsAncestor(visits)
  /\ visits[Len(visits)].value.id \in visited

\* the visited set holds a container whose call has returned
C15_WitnessReturned == pc = "loop" /\ visited # ActivePath

C16_WitnessDepth ==
  /\ Done /\ outcome.kind = "MaxDepthExceededError"
  /\ visits[Len(visits)].depth = maxDepth + 1

(* ---------------- C17 ---------------- *)
\* the count passed to the call that owns frame i of the stack: that of the
\* visit made at the position of this call
CountPassedIn(i) ==
  LET p == PathOf(SubSeq(stack, 1, i - 1))
  IN visits[CHOOSE k \in 1..Len(visits) : visits[k].path = p].currentCount

\* the number of matches in the subtree of the call made at position p: the
\* visits at p and below it that met the match value
SubtreeMatches(p) ==
  Cardinality({k \in 1..Len(visits) :
                 IsPrefix(p, visits[k].path) /\ visits[k].value = Str("dog")})

\* C17: a call that returns returns the count passed in plus the number of
\* matches of its subtree (1 or 0 for a scalar), never less than the count
\* passed in; the running count of an enclosing call is never above that of
\* the call inside it and never decreases, the count passed to a visit is
\* never below the count passed to the visit before it, and the count of a
\* successful top-level call is the number of matches visited. The matches
\* of a subtree are counted on the visits below the call and, for the small
\* inputs, on the input itself. (The log of
\* visits only grows and only the innermost call changes, so each state
\* compares the newest visit and the innermost call with their neighbours.)
C17_CountThreading ==
  /\ [](pc # "idle" =>
         /\ Len(visits) > 1 =>
              visits[Len(visits) - 1].currentCount <= visits[Len(visits)].currentCount
         /\ stack # <<>> => CountPassedIn(Len(stack)) <= stack[Len(stack)].totalCount
         /\ Len(stack) > 1 =>
              stack[Len(stack) - 1].totalCount <= stack[Len(stack)].totalCount
         /\ (pc = "call" /\ stack # <<>>) => cur.currentCount = stack[Len(stack)].totalCount
         /\ Succeeded => outcome.replacementCount = MatchVisits(visits))
  /\ [][LET returned == IF stack' = <<>> THEN outcome'.replacementCount
                         ELSE stack'[Len(stack')].totalCount
        IN /\ (pc = "call" /\ pc' # "call" /\ Len(stack') = Len(stack)
                 /\ outcome'.kind \notin Failures)
                => returned = cur.currentCount + (IF cur.value = Str("dog") THEN 1 ELSE 0)
           /\ (pc = "loop" /\ Len(stack') = Len(stack) - 1)
                => /\ returned = CountPassedIn(Len(stack))
                                 + SubtreeMatches(PathOf(SubSeq(stack, 1, Len(stack) - 1)))
                   /\ Len(input) <= NumIds + 1
                        => returned = CountPassedIn(Len(stack))
                                      + Facts(input, Ref(stack[Len(stack)].src)).matches
           /\ \A i \in 1..Len(stack) :
                i <= Len(stack') => stack[i].totalCount <= stack'[i].totalCount
       ]_vars

\* a container below the root returned a count above the count passed in,
\* itself above 0
C17_Witness ==
  /\ pc = "loop" /\ Len(stack) = 1
  /\ \E k \in 2..Len(visits) :
       /\ IsRef(visits[k].value)
       /\ visits[k].currentCount > 0
       /\ stack[1].totalCount > visits[k].currentCount
       /\ k < Len(visits) /\ Len(visits[Len(visits)].path) > Len(visits[k].path)
       /\ stack[1].idx > visits[k].path[1]

(* ---------------- C18 ---------------- *)
IsRefVisit(v) == IsRef(v.value)

\* data of the second call is deep-equal to the data d of the first: the
\* k-th container the second call built is a copy of the k-th container it
\* visited, with the same kind, the same keys in the same order and, entry by
\* entry, the same scalar or the copy of the same container
DeepEqualToFirst ==
  LET entered == SelectSeq(visits, IsRefVisit)
      madeFrom(c) == entered[c - previous.base].value.id
      copy(w, v) == IF IsRef(v)
                    THEN IsRef(w) /\ w.id \in SecondBuilt /\ madeFrom(w.id) = v.id
                    ELSE w = v
  IN /\ Len(entered) = Len(heap) - previous.base
     /\ copy(outcome.data, previous.outcome.data)
     /\ \A c \in SecondBuilt :
          LET a == heap[madeFrom(c)]
              b == heap[c]
          IN /\ b.kind = a.kind
             /\ b.keys = a.keys
             /\ Len(b.vals) = Len(a.vals)
             /\ \A k \in 1..Len(a.vals) : copy(b.vals[k], a.vals[k])

\* C18: when a call succeeds with data d, a second call on d with the same
\* maxDepth and any maxReplacements >= 0 succeeds with replacementCount 0 and
\* data deep-equal to d (own keys and values; the prototype is not copied);
\* it visits no match, and builds no more containers than the first call.
C18_IdempotentOnOutput ==
  (phase = "onOutput" /\ Done) =>
    /\ outcome.kind = "ok"
    /\ outcome.replacementCount = 0
    /\ MatchVisits(visits) = 0
    /\ Len(heap) - previous.base <= previous.base - Len(input)
    /\ DeepEqualToFirst

\* a second call with maxReplacements = 0 succeeded on a result of several
\* containers in which matches had been replaced
C18_Witness ==
  /\ phase = "onOutput" /\ Succeeded /\ maxReplacements = 0
  /\ previous.outcome.replacementCount > 0
  /\ Len(heap) - previous.base > 1

\* a second call on a result that lost an entry of key __proto__
C18_WitnessProto ==
  /\ phase = "onOutput" /\ Succeeded
  /\ Len(heap) - previous.base < previous.base - Len(input)

(* ---------------- C19 ---------------- *)
\* C19: when the replacer raises DepthExceeded or CircularReference the
\* handler answers 500 'Internal server error' with an error and a message
\* and nothing else (no depth, count or limit); an answer of 400 to a request
\* that reached the replacer is always that of a ReplacementLimitExceeded.
C19_DepthAndCycleAre500 ==
  (Responded /\ pc = "done") =>
    /\ outcome.kind \in {"MaxDepthExceededError", "CircularReferenceError"}
         => /\ response = InternalServerError
            /\ response.status = 500
            /\ response.error = "Internal server error"
            /\ response.has = {"error", "message"}
    /\ response.status = 400 => outcome.kind = "ReplacementLimitExceededError"
    /\ response.status \in {200, 400, 500}

\* a body nested 101 levels deep was answered 500
C19_Witness ==
  /\ Responded /\ response.status = 500
  /\ outcome = MaxDepthExceededError(DEFAULT_MAX_DEPTH)
  /\ Len(input) = DEFAULT_MAX_DEPTH + 1

\* a body that contains itself was answered 500
C19_WitnessCircular ==
  /\ Responded /\ response.status = 500
  /\ outcome = CircularReferenceError

(* ---------------- C20 ---------------- *)
\* C20: for every tree-shaped input whose nodes all lie at depth <= maxDepth
\* and every maxReplacements, the earlier version of replaceDogWithCat
\* (without the depth and visited guards), called on the value the guarded
\* version was called on, ends as the guarded version did: the same
\* replacementCount and deep-equal data, or ReplacementLimitExceeded with the
\* same count and limit.
C20_VersionsAgree ==
  (phase = "unguarded" /\ Done) =>
    (WithinDepth(Facts(input, root), maxDepth)
       => /\ SameAsFirst
          /\ outcome.kind \in {"ok", "ReplacementLimitExceededError"})

\* both versions refused the same match of a nested input
C20_Witness ==
  /\ phase = "unguarded" /\ Done
  /\ outcome.kind = "ReplacementLimitExceededError"
  /\ previous.outcome = outcome
  /\ Len(input) > 1 /\ Len(visits) > 2
  /\ WithinDepth(Facts(input, root), maxDepth)

\* both versions returned the same copy of a nested input
C20_WitnessOk ==
  /\ phase = "unguarded" /\ Succeeded
  /\ outcome.replacementCount > 0 /\ Len(input) > 1
  /\ WithinDepth(Facts(input, root), maxDepth)

\* outside the claim: on a container shared by two siblings only the guarded
\* version fails
C20_WitnessShared ==
  /\ phase = "unguarded" /\ Succeeded
  /\ previous.outcome.kind = "CircularReferenceError"

====
